---- MODULE Spec2Model ----
(***************************************************************************)
(* MapBuilderBridge of cartographer_ros (map_builder_bridge.cc): the       *)
(* trajectory lifecycle (constructor, HandleFinishTrajectory, destructor)  *)
(* and the query handlers (HandleSubmapQuery, GetSubmapList,               *)
(* BuildOccupancyGrid) over the mapping engine map_builder_.               *)
(*                                                                         *)
(* HandleFinishTrajectory is modelled statement by statement: every line   *)
(* of the handler that calls the engine or assigns a member is one step.   *)
(* The engine (cartographer::mapping::MapBuilder and its sparse pose       *)
(* graph) is an external library; it is modelled by the contract the       *)
(* bridge consumes.                                                        *)
(***************************************************************************)
EXTENDS Integers, Sequences, FiniteSets, TLC

\* ---------------------------------------------------------------- bounds
\* Number of HandleFinishTrajectory calls a behaviour may start.
MaxFinish == 2
\* Number of sensor samples a behaviour may ingest.
MaxSamples == 2

\* ------------------------------------------------------------ input sets
\* request.stem of a FinishTrajectory request
Stems == {"map1", "map2"}
\* service callback contexts that may carry a finish request
Callers == {1, 2}

VARIABLES
  \* ---- MapBuilderBridge members
  life,                    \* "constructed" | "destroyed" | "aborted"
  trajectory_id_,          \* int trajectory_id_
  sensor_bridge_,          \* id of the trajectory builder sensor_bridge_ is bound to
  \* ---- frames of HandleFinishTrajectory, one per caller context
  pc,                      \* position of the caller in the handler
  previous_trajectory_id,  \* local of line 71
  stem,                    \* request.stem
  trajectory_nodes,        \* local of line 79
  call,                    \* ordinal of the call the frame is executing
  \* ---- engine (map_builder_)
  trajectory_builders,     \* one record per AddTrajectoryBuilder, in order
  nodes,                   \* sparse_pose_graph()->GetTrajectoryNodes()
  \* ---- what the collaborators and callers saw
  log,                     \* engine/exporter calls made by HandleFinishTrajectory
  exports,                 \* WriteAssets invocations
  samples,                 \* sensor samples handed to the bridge's adapter
  held,                    \* <<adapter>> a concurrent producer has fetched, or <<>>
  calls,                   \* HandleFinishTrajectory calls started
  out                      \* outcome of the last completed operation

bridgeVars == <<life, trajectory_id_, sensor_bridge_>>
frameVars  == <<pc, previous_trajectory_id, stem, trajectory_nodes, call>>
engineVars == <<trajectory_builders, nodes>>
seenVars   == <<log, exports, samples, held, calls>>
vars       == <<bridgeVars, frameVars, engineVars, seenVars, out>>

None == "none"

\* ----------------------------------------------------------------- engine
\* A trajectory builder as the bridge sees it: its submaps (each by its
\* end_laser_fan_index), the laser fans inserted so far and how often
\* FinishTrajectory was called on it.
NewTrajectoryBuilder == [submaps |-> <<>>, laser_fans |-> 0, finished |-> 0]

IsFinishedBuilder(trajectory_builder) == trajectory_builder.finished > 0

num_trajectory_builders == Len(trajectory_builders)

\* ids handed out so far: 0 .. num_trajectory_builders-1
TrajectoryIds == 0 .. (num_trajectory_builders - 1)

GetTrajectoryBuilder(id) == trajectory_builders[id + 1]

\* An engine that hands out the index of a finished trajectory again.
AddTrajectoryBuilderIdRecycling ==
  IF \E t \in TrajectoryIds : IsFinishedBuilder(trajectory_builders[t + 1])
  THEN CHOOSE t \in TrajectoryIds : IsFinishedBuilder(trajectory_builders[t + 1])
  ELSE num_trajectory_builders

\* AddTrajectoryBuilder appends a builder and returns its index.
AddTrajectoryBuilderId == num_trajectory_builders

AddTrajectoryBuilder == Append(trajectory_builders, NewTrajectoryBuilder)

FinishTrajectory(id) ==
  [trajectory_builders EXCEPT ![id + 1].finished = @ + 1]

IsFinished(id) == GetTrajectoryBuilder(id).finished > 0

\* trajectories created and not yet finalized by FinishTrajectory
ActiveTrajectories == {t \in TrajectoryIds : ~IsFinished(t)}

\* An engine in which opening a new submap resets the end_laser_fan_index
\* of the submaps before it.
InsertSampleResettingOlder(id, new_submap, add_node) ==
  LET tb   == GetTrajectoryBuilder(id)
      fan  == tb.laser_fans + 1
      subs == IF new_submap \/ tb.submaps = <<>>
              THEN Append([k \in 1 .. Len(tb.submaps) |-> 0], fan)
              ELSE [tb.submaps EXCEPT ![Len(tb.submaps)] = fan]
  IN  /\ trajectory_builders' =
           [trajectory_builders EXCEPT ![id + 1] =
              [tb EXCEPT !.laser_fans = fan, !.submaps = subs]]
      /\ nodes' = IF add_node
                  THEN Append(nodes, [trajectory |-> id, scan |-> fan])
                  ELSE nodes

\* One sample reaching trajectory builder id: the laser fan is inserted into
\* the newest submap, or opens a new one, and may add a trajectory node.
InsertSample(id, new_submap, add_node) ==
  LET tb   == GetTrajectoryBuilder(id)
      fan  == tb.laser_fans + 1
      subs == IF new_submap \/ tb.submaps = <<>>
              THEN Append(tb.submaps, fan)
              ELSE [tb.submaps EXCEPT ![Len(tb.submaps)] = fan]
  IN  /\ trajectory_builders' =
           [trajectory_builders EXCEPT ![id + 1] =
              [tb EXCEPT !.laser_fans = fan, !.submaps = subs]]
      /\ nodes' = IF add_node
                  THEN Append(nodes, [trajectory |-> id, scan |-> fan])
                  ELSE nodes

SamplesSoFar == Len(samples)

\* ------------------------------------------------------------ scheduling
Idle(c) == pc[c] = "idle"

AllIdle == \A c \in Callers : Idle(c)

InProgress == \E c \in Callers : ~Idle(c)

Alive == life = "constructed"

\* A dispatcher that starts a handler while another one is in progress.
MayDispatchReentrant(c) == TRUE

\* The callbacks of the node run on one coordinating thread: a handler is
\* dispatched only when no other handler is in progress.
MayDispatch(c) == \A d \in Callers : Idle(d)

\* ------------------------------------------------------------ constructor
Init ==
  /\ life = "constructed"
  /\ trajectory_builders = <<NewTrajectoryBuilder>>
  /\ trajectory_id_ = 0
  /\ sensor_bridge_ = 0
  /\ nodes = <<>>
  /\ pc = [c \in Callers |-> "idle"]
  /\ previous_trajectory_id = [c \in Callers |-> 0]
  /\ stem = [c \in Callers |-> None]
  /\ trajectory_nodes = [c \in Callers |-> <<>>]
  /\ call = [c \in Callers |-> 0]
  /\ log = <<>>
  /\ exports = <<>>
  /\ samples = <<>>
  /\ held = <<>>
  /\ calls = 0
  /\ out = [op |-> "MapBuilderBridge"]

\* -------------------------------------------------------------- ingestion
\* A sensor callback forwards one sample through sensor_bridge_ while no
\* handler is running.
Ingest ==
  /\ Alive /\ AllIdle /\ held = <<>>
  /\ SamplesSoFar < MaxSamples
  /\ \E new_submap \in BOOLEAN, add_node \in BOOLEAN :
       InsertSample(sensor_bridge_, new_submap, add_node)
  /\ samples' = Append(samples, [seen_id |-> trajectory_id_,
                                 adapter |-> sensor_bridge_,
                                 outcome |-> "ingested"])
  /\ out' = [op |-> "Ingest"]
  /\ UNCHANGED <<bridgeVars, frameVars, log, exports, held, calls>>

\* ------------------------------------------------- HandleFinishTrajectory
\* A handler that finalizes the previous trajectory (lines 76-77) before it
\* creates the new one (lines 72-74).
AfterFinalizeFirst(p) ==
  CASE p = "idle" -> "L76"
    [] p = "L76"  -> "L77"
    [] p = "L77"  -> "L72"
    [] p = "L72"  -> "L73"
    [] p = "L73"  -> "L79"
    [] p = "L79"  -> "L81"
    [] p = "L81"  -> "L88"
    [] p = "L88"  -> "idle"

\* The statement that follows statement p of the handler, lines 71-89.
After(p) ==
  CASE p = "idle" -> "L72"
    [] p = "L72"  -> "L73"
    [] p = "L73"  -> "L76"
    [] p = "L76"  -> "L77"
    [] p = "L77"  -> "L79"
    [] p = "L79"  -> "L81"
    [] p = "L81"  -> "L88"
    [] p = "L88"  -> "idle"

Event(c, op, id) == [op |-> op, call |-> call[c], id |-> id]

\* entry and line 71: const int previous_trajectory_id = trajectory_id_;
FinishBegin(c, request_stem) ==
  /\ Alive /\ Idle(c) /\ MayDispatch(c)
  /\ calls < MaxFinish
  /\ calls' = calls + 1
  /\ call' = [call EXCEPT ![c] = calls + 1]
  /\ stem' = [stem EXCEPT ![c] = request_stem]
  /\ previous_trajectory_id' = [previous_trajectory_id EXCEPT ![c] = trajectory_id_]
  /\ pc' = [pc EXCEPT ![c] = After(pc[c])]
  /\ out' = [op |-> "HandleFinishTrajectory", returned |-> FALSE]
  /\ UNCHANGED <<bridgeVars, trajectory_nodes, engineVars, log, exports, samples, held>>

\* line 72: trajectory_id_ = map_builder_.AddTrajectoryBuilder(...);
FinishAddTrajectory(c) ==
  /\ Alive /\ pc[c] = "L72"
  /\ trajectory_id_' = AddTrajectoryBuilderId
  /\ trajectory_builders' = AddTrajectoryBuilder
  /\ log' = Append(log, Event(c, "AddTrajectoryBuilder", AddTrajectoryBuilderId))
  /\ pc' = [pc EXCEPT ![c] = After(pc[c])]
  /\ UNCHANGED <<life, sensor_bridge_, previous_trajectory_id, stem,
                 trajectory_nodes, call, nodes, exports, samples, held, calls, out>>

\* The new adapter bound to the builder of the previous trajectory.
FinishBindSensorBridgeToPrevious(c) ==
  /\ Alive /\ pc[c] = "L73"
  /\ sensor_bridge_' = previous_trajectory_id[c]
  /\ log' = Append(log, Event(c, "SensorBridge", previous_trajectory_id[c]))
  /\ pc' = [pc EXCEPT ![c] = After(pc[c])]
  /\ UNCHANGED <<life, trajectory_id_, previous_trajectory_id, stem,
                 trajectory_nodes, call, engineVars, exports, samples, held, calls, out>>

\* lines 73-74: sensor_bridge_ = make_unique<SensorBridge>(
\*                  &tf_bridge_, GetTrajectoryBuilder(trajectory_id_));
FinishBindSensorBridge(c) ==
  /\ Alive /\ pc[c] = "L73"
  /\ sensor_bridge_' = trajectory_id_
  /\ log' = Append(log, Event(c, "SensorBridge", trajectory_id_))
  /\ pc' = [pc EXCEPT ![c] = After(pc[c])]
  /\ UNCHANGED <<life, trajectory_id_, previous_trajectory_id, stem,
                 trajectory_nodes, call, engineVars, exports, samples, held, calls, out>>

\* Line 76 left out: the previous trajectory is never finalized.
FinishPreviousTrajectorySkipped(c) ==
  /\ Alive /\ pc[c] = "L76"
  /\ pc' = [pc EXCEPT ![c] = After(pc[c])]
  /\ UNCHANGED <<bridgeVars, previous_trajectory_id, stem, trajectory_nodes, call,
                 engineVars, seenVars, out>>

\* line 76: map_builder_.FinishTrajectory(previous_trajectory_id);
FinishPreviousTrajectory(c) ==
  /\ Alive /\ pc[c] = "L76"
  /\ trajectory_builders' = FinishTrajectory(previous_trajectory_id[c])
  /\ log' = Append(log, Event(c, "FinishTrajectory", previous_trajectory_id[c]))
  /\ pc' = [pc EXCEPT ![c] = After(pc[c])]
  /\ UNCHANGED <<bridgeVars, previous_trajectory_id, stem, trajectory_nodes, call,
                 nodes, exports, samples, held, calls, out>>

\* line 77: map_builder_.sparse_pose_graph()->RunFinalOptimization();
FinishRunFinalOptimization(c) ==
  /\ Alive /\ pc[c] = "L77"
  /\ log' = Append(log, Event(c, "RunFinalOptimization", previous_trajectory_id[c]))
  /\ pc' = [pc EXCEPT ![c] = After(pc[c])]
  /\ UNCHANGED <<bridgeVars, previous_trajectory_id, stem, trajectory_nodes, call,
                 engineVars, exports, samples, held, calls, out>>

\* lines 79-80: const auto trajectory_nodes = ...->GetTrajectoryNodes();
FinishGetTrajectoryNodes(c) ==
  /\ Alive /\ pc[c] = "L79"
  /\ trajectory_nodes' = [trajectory_nodes EXCEPT ![c] = nodes]
  /\ pc' = [pc EXCEPT ![c] = After(pc[c])]
  /\ UNCHANGED <<bridgeVars, previous_trajectory_id, stem, call,
                 engineVars, seenVars, out>>

\* lines 81-82: if (trajectory_nodes.empty()) LOG(WARNING) << ...
FinishWarn(c) ==
  /\ Alive /\ pc[c] = "L81"
  /\ trajectory_nodes[c] = <<>>
  /\ log' = Append(log, Event(c, "WARNING", previous_trajectory_id[c]))
  /\ pc' = [pc EXCEPT ![c] = After(pc[c])]
  /\ UNCHANGED <<bridgeVars, previous_trajectory_id, stem, trajectory_nodes, call,
                 engineVars, exports, samples, held, calls, out>>

\* lines 83-86: else WriteAssets(trajectory_nodes, options_, request.stem);
FinishWriteAssets(c) ==
  /\ Alive /\ pc[c] = "L81"
  /\ trajectory_nodes[c] # <<>>
  /\ log' = Append(log, Event(c, "WriteAssets", previous_trajectory_id[c]))
  /\ exports' = Append(exports, [call     |-> call[c],
                                 previous |-> previous_trajectory_id[c],
                                 nodes    |-> trajectory_nodes[c],
                                 stem     |-> stem[c]])
  /\ pc' = [pc EXCEPT ![c] = After(pc[c])]
  /\ UNCHANGED <<bridgeVars, previous_trajectory_id, stem, trajectory_nodes, call,
                 engineVars, samples, held, calls, out>>

\* A handler that reports failure when nothing was exported.
FinishReturnFailingWithoutExport(c) ==
  /\ Alive /\ pc[c] = "L88"
  /\ pc' = [pc EXCEPT ![c] = After(pc[c])]
  /\ previous_trajectory_id' = [previous_trajectory_id EXCEPT ![c] = 0]
  /\ stem' = [stem EXCEPT ![c] = None]
  /\ trajectory_nodes' = [trajectory_nodes EXCEPT ![c] = <<>>]
  /\ call' = [call EXCEPT ![c] = 0]
  /\ out' = [op |-> "HandleFinishTrajectory", returned |-> TRUE,
             value |-> (trajectory_nodes[c] # <<>>), call |-> call[c],
             previous |-> previous_trajectory_id[c]]
  /\ UNCHANGED <<bridgeVars, engineVars, seenVars>>

\* lines 88-89: return true; the frame of the call is gone
FinishReturn(c) ==
  /\ Alive /\ pc[c] = "L88"
  /\ pc' = [pc EXCEPT ![c] = After(pc[c])]
  /\ previous_trajectory_id' = [previous_trajectory_id EXCEPT ![c] = 0]
  /\ stem' = [stem EXCEPT ![c] = None]
  /\ trajectory_nodes' = [trajectory_nodes EXCEPT ![c] = <<>>]
  /\ call' = [call EXCEPT ![c] = 0]
  /\ out' = [op |-> "HandleFinishTrajectory", returned |-> TRUE,
             value |-> TRUE, call |-> call[c],
             previous |-> previous_trajectory_id[c]]
  /\ UNCHANGED <<bridgeVars, engineVars, seenVars>>

HandleFinishTrajectory(c) ==
  \/ \E s \in Stems : FinishBegin(c, s)
  \/ FinishAddTrajectory(c)
  \/ FinishBindSensorBridge(c)
  \/ FinishPreviousTrajectory(c)
  \/ FinishRunFinalOptimization(c)
  \/ FinishGetTrajectoryNodes(c)
  \/ FinishWarn(c)
  \/ FinishWriteAssets(c)
  \/ FinishReturn(c)

\* A destructor that leaves the current trajectory as it is.
DestroyWithoutFinish ==
  /\ Alive /\ AllIdle
  /\ life' = "destroyed"
  /\ out' = [op |-> "~MapBuilderBridge"]
  /\ UNCHANGED <<trajectory_id_, sensor_bridge_, frameVars, engineVars, seenVars>>

\* ------------------------------------------------------------- destructor
\* lines 40-42: map_builder_.FinishTrajectory(trajectory_id_);
Destroy ==
  /\ Alive /\ AllIdle
  /\ trajectory_builders' = FinishTrajectory(trajectory_id_)
  /\ life' = "destroyed"
  /\ out' = [op |-> "~MapBuilderBridge"]
  /\ UNCHANGED <<trajectory_id_, sensor_bridge_, frameVars, nodes, seenVars>>

\* ------------------------------------------------------ HandleSubmapQuery
Rigid3(trajectory_id, submap_index) ==
  [translation |-> <<trajectory_id, submap_index>>, rotation |-> "q"]

IdentityRigid3 == [translation |-> <<>>, rotation |-> "identity"]

\* msg_conversion: a Rigid3d as geometry_msgs::Pose
ToGeometryMsgPose(rigid) ==
  [position |-> rigid.translation, orientation |-> rigid.rotation]

\* a default-constructed proto::SubmapQuery::Response
EmptyResponseProto ==
  [submap_version |-> 0, cells |-> <<>>, width |-> 0, height |-> 0,
   resolution |-> 0, slice_pose |-> IdentityRigid3]

\* the response object the middleware hands to the service callback
EmptyResponse ==
  [submap_version |-> 0, cells |-> <<>>, width |-> 0, height |-> 0,
   resolution |-> 0, slice_pose |-> ToGeometryMsgPose(IdentityRigid3)]

ValidSubmapRef(trajectory_id, submap_index) ==
  /\ trajectory_id \in TrajectoryIds
  /\ submap_index >= 0
  /\ submap_index < Len(GetTrajectoryBuilder(trajectory_id).submaps)

\* the engine's view of one submap
SubmapSnapshot(trajectory_id, submap_index) ==
  LET version == GetTrajectoryBuilder(trajectory_id).submaps[submap_index + 1]
  IN  [submap_version |-> version,
       cells          |-> <<trajectory_id, submap_index, version>>,
       width          |-> submap_index + 1,
       height         |-> trajectory_id + 1,
       resolution     |-> version + 1,
       slice_pose     |-> Rigid3(trajectory_id, submap_index)]

\* map_builder_.SubmapToProto: an error string and the filled proto
SubmapToProto(trajectory_id, submap_index) ==
  IF trajectory_id \notin TrajectoryIds
  THEN [error |-> "Requested submap from unknown trajectory",
        response_proto |-> EmptyResponseProto]
  ELSE IF ~ValidSubmapRef(trajectory_id, submap_index)
  THEN [error |-> "Requested unknown submap",
        response_proto |-> EmptyResponseProto]
  ELSE [error |-> "",
        response_proto |-> SubmapSnapshot(trajectory_id, submap_index)]

\* lines 55-62
PopulateResponse(response, response_proto) ==
  [submap_version |-> response_proto.submap_version,
   cells          |-> response_proto.cells \o response.cells,
   width          |-> response_proto.width,
   height         |-> response_proto.height,
   resolution     |-> response_proto.resolution,
   slice_pose     |-> ToGeometryMsgPose(response_proto.slice_pose)]

\* The handler with trajectory id and submap index passed in the wrong order.
SubmapQueryResultSwappedArguments(request, response) ==
  LET answer == SubmapToProto(request.submap_index, request.trajectory_id)
  IN  IF answer.error # ""
      THEN [value |-> FALSE, response |-> response, error |-> answer.error]
      ELSE [value |-> TRUE,
            response |-> PopulateResponse(response, answer.response_proto),
            error |-> answer.error]

\* The handler without the early return of lines 50-53.
SubmapQueryResultNoEarlyReturn(request, response) ==
  LET answer == SubmapToProto(request.trajectory_id, request.submap_index)
  IN  [value |-> TRUE,
       response |-> PopulateResponse(response, answer.response_proto),
       error |-> answer.error]

\* lines 47-64: the return value and the response as the caller finds it
SubmapQueryResult(request, response) ==
  LET answer == SubmapToProto(request.trajectory_id, request.submap_index)
  IN  IF answer.error # ""
      THEN [value |-> FALSE, response |-> response, error |-> answer.error]
      ELSE [value |-> TRUE,
            response |-> PopulateResponse(response, answer.response_proto),
            error |-> answer.error]

RequestTrajectoryIds == -1 .. (MaxFinish + 1)
RequestSubmapIndices == -1 .. MaxSamples

HandleSubmapQuery ==
  /\ Alive /\ AllIdle
  /\ \E t \in RequestTrajectoryIds, i \in RequestSubmapIndices :
       LET request == [trajectory_id |-> t, submap_index |-> i]
           result  == SubmapQueryResult(request, EmptyResponse)
       IN  out' = [op |-> "HandleSubmapQuery", request |-> request,
                   before |-> EmptyResponse,
                   value |-> result.value, response |-> result.response,
                   error |-> result.error]
  /\ UNCHANGED <<bridgeVars, frameVars, engineVars, seenVars>>

\* ---------------------------------------------------------- GetSubmapList
\* sparse_pose_graph()->GetSubmapTransforms(*submaps): a vector of `size`
\* transforms, element k placing submap k of the trajectory.
GetSubmapTransforms(trajectory_id, size) ==
  [k \in 1 .. size |-> Rigid3(trajectory_id, k - 1)]

\* The inner loop with each entry inserted at the front of the group.
TrajectorySubmapListPrepending(submaps, submap_transforms) ==
  [k \in 1 .. Len(submaps) |->
     [submap_version |-> submaps[Len(submaps) + 1 - k],
      pose |-> ToGeometryMsgPose(submap_transforms[Len(submaps) + 1 - k])]]

\* lines 105-113
TrajectorySubmapList(submaps, submap_transforms) ==
  [k \in 1 .. Len(submaps) |->
     [submap_version |-> submaps[k],
      pose |-> ToGeometryMsgPose(submap_transforms[k])]]

\* The loop without the CHECK_EQ of line 103: a group holds as many entries
\* as there are both submaps and transforms.
RECURSIVE SubmapListFromUnchecked(_, _, _)
SubmapListFromUnchecked(trajectory_id, sizes, submap_list) ==
  IF ~(trajectory_id < num_trajectory_builders)
  THEN [aborted |-> FALSE, list |-> submap_list]
  ELSE LET submaps == GetTrajectoryBuilder(trajectory_id).submaps
           submap_transforms == GetSubmapTransforms(trajectory_id, sizes[trajectory_id])
           n == IF Len(submap_transforms) < Len(submaps)
                THEN Len(submap_transforms) ELSE Len(submaps)
       IN  SubmapListFromUnchecked(trajectory_id + 1, sizes,
             Append(submap_list,
                    [k \in 1 .. n |->
                       [submap_version |-> submaps[k],
                        pose |-> ToGeometryMsgPose(submap_transforms[k])]]))

\* The loop leaving out the trajectories that have no submap.
RECURSIVE SubmapListFromSkippingEmpty(_, _, _)
SubmapListFromSkippingEmpty(trajectory_id, sizes, submap_list) ==
  IF ~(trajectory_id < num_trajectory_builders)
  THEN [aborted |-> FALSE, list |-> submap_list]
  ELSE LET submaps == GetTrajectoryBuilder(trajectory_id).submaps
           submap_transforms == GetSubmapTransforms(trajectory_id, sizes[trajectory_id])
       IN  IF Len(submap_transforms) # Len(submaps)
           THEN [aborted |-> TRUE, list |-> <<>>]
           ELSE SubmapListFromSkippingEmpty(trajectory_id + 1, sizes,
                  IF Len(submaps) = 0
                  THEN submap_list
                  ELSE Append(submap_list,
                              TrajectorySubmapList(submaps, submap_transforms)))

\* lines 96-116: the loop from trajectory_id on; sizes[id] is the length of
\* the vector the optimizer returns for trajectory id.
RECURSIVE SubmapListFrom(_, _, _)
SubmapListFrom(trajectory_id, sizes, submap_list) ==
  IF ~(trajectory_id < num_trajectory_builders)
  THEN [aborted |-> FALSE, list |-> submap_list]
  ELSE LET submaps == GetTrajectoryBuilder(trajectory_id).submaps
           submap_transforms == GetSubmapTransforms(trajectory_id, sizes[trajectory_id])
       IN  IF Len(submap_transforms) # Len(submaps)
           THEN [aborted |-> TRUE, list |-> <<>>]
           ELSE SubmapListFrom(trajectory_id + 1, sizes,
                  Append(submap_list,
                         TrajectorySubmapList(submaps, submap_transforms)))

\* what the optimizer answers for each trajectory: its submap count, but for
\* the trajectories in `corrupt`, where its bookkeeping is off by `delta`
TransformSizes(corrupt, delta) ==
  [t \in TrajectoryIds |->
     LET n == Len(GetTrajectoryBuilder(t).submaps)
     IN  IF t \in corrupt /\ n + delta >= 0 THEN n + delta ELSE n]

\* GetSubmapList running a final optimization before it reads the transforms.
GetSubmapListOptimizing ==
  /\ Alive /\ AllIdle
  /\ \E corrupt \in {{}} \cup {{t} : t \in TrajectoryIds}, delta \in {-1, 1} :
       LET sizes  == TransformSizes(corrupt, delta)
           result == SubmapListFrom(0, sizes, <<>>)
       IN  /\ out' = [op |-> "GetSubmapList", sizes |-> sizes,
                      aborted |-> result.aborted, list |-> result.list]
           /\ life' = IF result.aborted THEN "aborted" ELSE life
  /\ log' = Append(log, [op |-> "RunFinalOptimization", call |-> calls,
                         id |-> trajectory_id_])
  /\ UNCHANGED <<trajectory_id_, sensor_bridge_, frameVars, engineVars,
                 exports, samples, held, calls>>

GetSubmapList ==
  /\ Alive /\ AllIdle
  /\ \E corrupt \in {{}} \cup {{t} : t \in TrajectoryIds}, delta \in {-1, 1} :
       LET sizes  == TransformSizes(corrupt, delta)
           result == SubmapListFrom(0, sizes, <<>>)
       IN  /\ out' = [op |-> "GetSubmapList", sizes |-> sizes,
                      aborted |-> result.aborted, list |-> result.list]
           /\ life' = IF result.aborted THEN "aborted" ELSE life
  /\ UNCHANGED <<trajectory_id_, sensor_bridge_, frameVars, engineVars, seenVars>>

\* BuildOccupancyGrid without the emptiness test of line 123.
OccupancyGridResultAlwaysGrid(all_nodes) ==
  [null |-> FALSE, rasterized |-> all_nodes, rasterizer_called |-> TRUE]

\* ----------------------------------------------------- BuildOccupancyGrid
\* lines 119-130
OccupancyGridResult(all_nodes) ==
  IF all_nodes # <<>>
  THEN [null |-> FALSE, rasterized |-> all_nodes, rasterizer_called |-> TRUE]
  ELSE [null |-> TRUE, rasterized |-> <<>>, rasterizer_called |-> FALSE]

BuildOccupancyGrid ==
  /\ Alive /\ AllIdle
  /\ LET result == OccupancyGridResult(nodes)
     IN  out' = [op |-> "BuildOccupancyGrid", null |-> result.null,
                 rasterized |-> result.rasterized,
                 rasterizer_called |-> result.rasterizer_called]
  /\ UNCHANGED <<bridgeVars, frameVars, engineVars, seenVars>>

\* ------------------------------------------- a producer in its own context
\* The producer takes the adapter pointer (sensor_bridge()) in one step and
\* hands the sample to it in a later one, with no lock against the handlers.
ProducerFetch ==
  /\ Alive /\ held = <<>>
  /\ SamplesSoFar < MaxSamples
  /\ held' = <<[seen_id |-> trajectory_id_, adapter |-> sensor_bridge_]>>
  /\ UNCHANGED <<bridgeVars, frameVars, engineVars, log, exports, samples, calls, out>>

\* The adapter is still the bridge's: the sample reaches its trajectory.
ProducerDeliver ==
  /\ Alive /\ held # <<>>
  /\ held[1].adapter = sensor_bridge_
  /\ \E new_submap \in BOOLEAN, add_node \in BOOLEAN :
       InsertSample(held[1].adapter, new_submap, add_node)
  /\ samples' = Append(samples, [seen_id |-> held[1].seen_id,
                                 adapter |-> held[1].adapter,
                                 outcome |-> "ingested"])
  /\ held' = <<>>
  /\ UNCHANGED <<bridgeVars, frameVars, log, exports, calls, out>>

\* The adapter was destroyed by the assignment of line 73 after the producer
\* took the pointer: using it is undefined, the sample is lost or reaches the
\* trajectory builder the adapter was bound to.
ProducerDeliverStale ==
  /\ Alive /\ held # <<>>
  /\ held[1].adapter # sensor_bridge_
  /\ \E reaches_builder \in BOOLEAN :
       IF reaches_builder /\ ~IsFinished(held[1].adapter)
       THEN /\ \E new_submap \in BOOLEAN, add_node \in BOOLEAN :
                 InsertSample(held[1].adapter, new_submap, add_node)
            /\ samples' = Append(samples, [seen_id |-> held[1].seen_id,
                                           adapter |-> held[1].adapter,
                                           outcome |-> "ingested"])
       ELSE /\ UNCHANGED engineVars
            /\ samples' = Append(samples,
                 [seen_id |-> held[1].seen_id, adapter |-> held[1].adapter,
                  outcome |-> IF reaches_builder THEN "finalized" ELSE "dropped"])
  /\ held' = <<>>
  /\ UNCHANGED <<bridgeVars, frameVars, log, exports, calls, out>>

Next ==
  \/ Ingest
  \/ \E c \in Callers : HandleFinishTrajectory(c)
  \/ HandleSubmapQuery
  \/ GetSubmapList
  \/ BuildOccupancyGrid
  \/ Destroy

Spec == Init /\ [][Next]_vars

\* the same bridge with the sensor producer running in a context of its own
NextConcurrent ==
  \/ \E c \in Callers : HandleFinishTrajectory(c)
  \/ Destroy
  \/ ProducerFetch
  \/ ProducerDeliver
  \/ ProducerDeliverStale

SpecConcurrent == Init /\ [][NextConcurrent]_vars

\* ================================================================ claims
IsPrefix(a, b) ==
  /\ Len(a) <= Len(b)
  /\ \A i \in 1 .. Len(a) : a[i] = b[i]

\* the calls the handler made during HandleFinishTrajectory call k, in order
CallOps(k) ==
  LET events == SelectSeq(log, LAMBDA e : e.call = k)
  IN  [i \in 1 .. Len(events) |-> events[i].op]

CallEventIds(k, op) ==
  {log[i].id : i \in {j \in 1 .. Len(log) : log[j].call = k /\ log[j].op = op}}

NodesOf(node_seq, trajectory_id) ==
  {i \in 1 .. Len(node_seq) : node_seq[i].trajectory = trajectory_id}

\* C1 as stated: in every state of a constructed bridge, the intermediate
\* steps of HandleFinishTrajectory included, exactly one trajectory is
\* active (created and not yet finalized).
C1_ExactlyOneActiveAtEveryStep ==
  Alive => Cardinality(ActiveTrajectories) = 1

\* C1 amended: a constructed bridge always has at least one active
\* trajectory and the current one is active; exactly one is active whenever
\* no call stands between its AddTrajectoryBuilder (line 72) and its
\* FinishTrajectory (line 76); between those two statements exactly two
\* are active, the previous trajectory and the new one.
C1_OneActiveOutsideHandoffWindow ==
  Alive =>
    /\ trajectory_id_ \in ActiveTrajectories
    /\ IF \E c \in Callers : pc[c] \in {"L73", "L76"}
       THEN \A c \in Callers : pc[c] \in {"L73", "L76"} =>
              /\ ActiveTrajectories = {previous_trajectory_id[c], trajectory_id_}
              /\ previous_trajectory_id[c] # trajectory_id_
       ELSE ActiveTrajectories = {trajectory_id_}

\* a handoff has returned and left one active trajectory, a new one
C1_Witness ==
  /\ Alive
  /\ out.op = "HandleFinishTrajectory" /\ out.returned
  /\ ActiveTrajectories = {trajectory_id_}
  /\ out.previous # trajectory_id_
  /\ IsFinished(out.previous)

HandoffWithExport ==
  <<"AddTrajectoryBuilder", "SensorBridge", "FinishTrajectory",
    "RunFinalOptimization", "WriteAssets">>

HandoffWithWarning ==
  <<"AddTrajectoryBuilder", "SensorBridge", "FinishTrajectory",
    "RunFinalOptimization", "WARNING">>

\* C2: every HandleFinishTrajectory call makes its calls in the order
\* AddTrajectoryBuilder, new SensorBridge, FinishTrajectory(previous),
\* RunFinalOptimization, then WriteAssets or the warning; the trajectory it
\* finalizes is the previous one, not the one it created, and when it
\* finalizes, trajectory_id_ and sensor_bridge_ are already the new one.
C2_HandoffOrder ==
  /\ \A k \in 1 .. calls :
       /\ \/ IsPrefix(CallOps(k), HandoffWithExport)
          \/ IsPrefix(CallOps(k), HandoffWithWarning)
       /\ \A old \in CallEventIds(k, "FinishTrajectory") :
            \A new \in CallEventIds(k, "AddTrajectoryBuilder") :
              /\ old # new
              /\ CallEventIds(k, "SensorBridge") = {new}
  /\ \A c \in Callers :
       pc[c] = "L76" =>
         /\ trajectory_id_ # previous_trajectory_id[c]
         /\ sensor_bridge_ = trajectory_id_
         /\ CallEventIds(call[c], "AddTrajectoryBuilder") = {trajectory_id_}

\* two calls have run to their end, one exporting and one warning
C2_Witness ==
  /\ calls >= 2
  /\ \E k \in 1 .. calls : CallOps(k) = HandoffWithExport
  /\ \E k \in 1 .. calls : CallOps(k) = HandoffWithWarning

\* C3 as stated: the exporter is invoked only for a finished trajectory that
\* has at least one node; finishing a trajectory with zero nodes ends with
\* the warning and without WriteAssets.
C3_NoExportForEmptyTrajectory ==
  \A i \in 1 .. Len(exports) :
    NodesOf(exports[i].nodes, exports[i].previous) # {}

\* C4 as stated: the nodes handed to WriteAssets are the nodes of the
\* trajectory being finished and no others, under the stem of the request.
C4_ExportIsFinishedTrajectoryOnly ==
  \A i \in 1 .. Len(exports) :
    /\ exports[i].stem \in Stems
    /\ \A j \in 1 .. Len(exports[i].nodes) :
         exports[i].nodes[j].trajectory = exports[i].previous

\* C5: the steps of two HandleFinishTrajectory calls are never interleaved:
\* at most one call is in progress, a call starts only when none is, and
\* the engine sees the calls of one handoff as one block.
C5_HandoffNotReentrant ==
  /\ Cardinality({c \in Callers : ~Idle(c)}) <= 1
  /\ \A i, j \in 1 .. Len(log) : i < j => log[i].call <= log[j].call

\* a handoff is in progress and another caller, free to ask, is held back
C5_Witness ==
  \E c, d \in Callers :
    /\ c # d
    /\ pc[c] \in {"L73", "L76", "L77", "L79", "L81"}
    /\ Idle(d)
    /\ calls < MaxFinish
    /\ ~ENABLED (\E st \in Stems : FinishBegin(d, st))

\* C6 as stated: no ingestion caller sees trajectory_id_ and the adapter
\* refer to different trajectories, and every sample handed over during the
\* handoff is ingested by a trajectory that is not finalized.
C6_SwitchIsAtomicForProducer ==
  /\ \A i \in 1 .. Len(samples) :
       /\ samples[i].seen_id = samples[i].adapter
       /\ samples[i].outcome = "ingested"
  /\ \A i \in 1 .. Len(held) : held[i].seen_id = held[i].adapter

\* C7: HandleSubmapQuery(t, i) succeeds exactly for the trajectories ever
\* created, finished or not, and the indices below the submap count of t.
C7_QuerySucceedsIffValidRef ==
  out.op = "HandleSubmapQuery" =>
    (out.value <=>
       /\ out.request.trajectory_id >= 0
       /\ out.request.trajectory_id < num_trajectory_builders
       /\ out.request.submap_index >= 0
       /\ out.request.submap_index <
            Len(trajectory_builders[out.request.trajectory_id + 1].submaps))

\* a submap of a finished trajectory was queried and the query succeeded
C7_Witness ==
  /\ out.op = "HandleSubmapQuery"
  /\ out.value
  /\ out.request.trajectory_id \in TrajectoryIds
  /\ IsFinished(out.request.trajectory_id)
  /\ out.request.trajectory_id # trajectory_id_

\* C8: a HandleSubmapQuery step changes nothing of the bridge or the engine;
\* on a non-empty engine error it returns false and leaves the response as
\* it was; on an empty one it returns true with every field taken from the
\* engine's snapshot of the submap.
C8_QueryAllOrNothing ==
  [][out'.op = "HandleSubmapQuery" =>
       /\ UNCHANGED <<bridgeVars, frameVars, engineVars, seenVars>>
       /\ IF out'.error # ""
          THEN /\ out'.value = FALSE
               /\ out'.response = out'.before
          ELSE LET t == out'.request.trajectory_id
                   i == out'.request.submap_index
                   version == trajectory_builders[t + 1].submaps[i + 1]
               IN  /\ out'.value = TRUE
                   /\ out'.response.submap_version = version
                   /\ out'.response.cells = <<t, i, version>>
                   /\ out'.response.width = i + 1
                   /\ out'.response.height = t + 1
                   /\ out'.response.resolution = version + 1
                   /\ out'.response.slice_pose =
                        [position |-> <<t, i>>, orientation |-> "q"]]_vars

\* a query the engine refused and a query it answered
C8_Witness ==
  /\ out.op = "HandleSubmapQuery"
  /\ out.error # ""
  /\ out.value = FALSE
  /\ out.request.trajectory_id \in TrajectoryIds
  /\ num_trajectory_builders >= 2

\* C9: GetSubmapList returns one group per trajectory in creation order
\* (group t+1 is trajectory t) and in each group one entry per submap index
\* 0..N-1, in index order, N being the submap count of the trajectory.
C9_SubmapListOrder ==
  (out.op = "GetSubmapList" /\ ~out.aborted) =>
    /\ Len(out.list) = num_trajectory_builders
    /\ \A t \in TrajectoryIds :
         LET group   == out.list[t + 1]
             submaps == trajectory_builders[t + 1].submaps
         IN  /\ Len(group) = Len(submaps)
             /\ \A k \in 1 .. Len(group) :
                  /\ group[k].pose.position = <<t, k - 1>>
                  /\ group[k].submap_version = submaps[k]

\* a list of two trajectories, the finished one with two submaps
C9_Witness ==
  /\ out.op = "GetSubmapList" /\ ~out.aborted
  /\ Len(out.list) >= 2
  /\ Len(out.list[1]) >= 2
  /\ IsFinished(0)

\* C10: when the optimizer answers, for any trajectory, with a number of
\* transforms other than the trajectory's submap count, GetSubmapList
\* aborts the process and returns no list, not even the groups of the
\* trajectories before it.
C10_MismatchAborts ==
  out.op = "GetSubmapList" =>
    ((\E t \in TrajectoryIds :
        out.sizes[t] # Len(trajectory_builders[t + 1].submaps))
      => (out.aborted /\ out.list = <<>> /\ life = "aborted"))

\* the mismatch is in a later trajectory, after a trajectory with submaps
C10_Witness ==
  /\ out.op = "GetSubmapList"
  /\ out.aborted
  /\ num_trajectory_builders >= 2
  /\ Len(trajectory_builders[1].submaps) >= 1
  /\ out.sizes[0] = Len(trajectory_builders[1].submaps)
  /\ out.sizes[1] # Len(trajectory_builders[2].submaps)

\* C11: BuildOccupancyGrid returns no grid, without calling the rasterizer,
\* exactly when no trajectory has a node; otherwise it calls the rasterizer
\* with all the nodes and returns a grid.
C11_GridIffNodes ==
  out.op = "BuildOccupancyGrid" =>
    /\ out.null <=> (Len(nodes) = 0)
    /\ out.rasterizer_called <=> (Len(nodes) > 0)
    /\ Len(nodes) > 0 => out.rasterized = nodes

\* a grid was asked for on a bridge that never ingested anything
C11_Witness ==
  /\ out.op = "BuildOccupancyGrid"
  /\ out.null
  /\ ~out.rasterizer_called
  /\ Len(samples) = 0

\* the handles the bridge obtained: the constructor's, then one per
\* HandleFinishTrajectory call that reached line 72
IssuedHandles ==
  LET adds == SelectSeq(log, LAMBDA e : e.op = "AddTrajectoryBuilder")
  IN  <<0>> \o [i \in 1 .. Len(adds) |-> adds[i].id]

\* C12: no handle is issued twice: the handles obtained by the constructor
\* and by the HandleFinishTrajectory calls are pairwise distinct, finished
\* ones included, and the current trajectory is the one issued last.
C12_HandlesNeverReused ==
  /\ \A i, j \in 1 .. Len(IssuedHandles) :
       i # j => IssuedHandles[i] # IssuedHandles[j]
  /\ trajectory_id_ = IssuedHandles[Len(IssuedHandles)]
  /\ \A t \in TrajectoryIds :
       (IsFinished(t) /\ Alive) => t # trajectory_id_

\* a handle was issued after two trajectories had been finished
C12_Witness ==
  /\ Len(IssuedHandles) >= 3
  /\ IsFinished(IssuedHandles[1])
  /\ IsFinished(IssuedHandles[2])
  /\ ~IsFinished(IssuedHandles[3])

\* C13: however a HandleFinishTrajectory call ends, it ends by returning
\* true, and at that moment the trajectory the call found is finalized and
\* the current trajectory is a new one, distinct from it and the only
\* active one.
C13_FinishAlwaysSucceeds ==
  [][\A c \in Callers :
       (pc[c] # "idle" /\ pc'[c] = "idle") =>
         /\ out'.op = "HandleFinishTrajectory"
         /\ out'.returned
         /\ out'.value = TRUE
         /\ trajectory_id_' # previous_trajectory_id[c]
         /\ trajectory_builders'[previous_trajectory_id[c] + 1].finished > 0
         /\ ActiveTrajectories' = {trajectory_id_'}]_vars

\* a call that found no nodes and exported nothing has returned true
C13_Witness ==
  /\ out.op = "HandleFinishTrajectory"
  /\ out.returned
  /\ out.value = TRUE
  /\ CallOps(out.call) = HandoffWithWarning
  /\ exports = <<>>

\* C14: FinishTrajectory is never called twice on a handle, and once the
\* bridge is destroyed every handle ever created has been finalized exactly
\* once, the one that was current at teardown included.
C14_EveryTrajectoryFinalizedOnce ==
  /\ \A t \in TrajectoryIds : trajectory_builders[t + 1].finished <= 1
  /\ life = "destroyed" =>
       \A t \in TrajectoryIds : trajectory_builders[t + 1].finished = 1

\* a bridge destroyed after two handoffs
C14_Witness ==
  /\ life = "destroyed"
  /\ num_trajectory_builders >= 3
  /\ trajectory_id_ = num_trajectory_builders - 1

\* the version a HandleSubmapQuery for submap (t, i) reports in a state
VersionByQuery(t, i) ==
  SubmapQueryResult([trajectory_id |-> t, submap_index |-> i],
                    EmptyResponse).response.submap_version

\* the list GetSubmapList returns in a state when the optimizer is sound
SoundSubmapList == SubmapListFrom(0, TransformSizes({}, 1), <<>>).list

\* C15: over every step (ingestion, finish request, teardown) a valid
\* SubmapRef stays valid and the version that HandleSubmapQuery and
\* GetSubmapList report for it does not go down. Both handlers read the
\* engine's trajectories only, so the steps to look at are those that
\* change them.
C15_VersionNonDecreasing ==
  [][trajectory_builders' # trajectory_builders =>
       LET list_before == SoundSubmapList
           list_after  == SoundSubmapList'
       IN  \A t \in TrajectoryIds :
             \A i \in 0 .. (Len(trajectory_builders[t + 1].submaps) - 1) :
               /\ ValidSubmapRef(t, i)'
               /\ VersionByQuery(t, i)' >= VersionByQuery(t, i)
               /\ list_after[t + 1][i + 1].submap_version
                    >= list_before[t + 1][i + 1].submap_version]_vars

\* submap 0 of a trajectory, finished since, is reported with version 2: it
\* took a second laser fan after its first
C15_Witness ==
  /\ out.op = "HandleSubmapQuery"
  /\ out.value
  /\ out.request.submap_index = 0
  /\ out.response.submap_version = 2
  /\ IsFinished(out.request.trajectory_id)

QueryOps == {"HandleSubmapQuery", "GetSubmapList", "BuildOccupancyGrid"}

\* C16: a HandleSubmapQuery, GetSubmapList or BuildOccupancyGrid step leaves
\* the current trajectory id, the adapter's binding, the trajectories with
\* their finalization and submaps, and the nodes as they were, and makes no
\* optimization or export call.
C16_QueriesAreReadOnly ==
  [][out'.op \in QueryOps =>
       UNCHANGED <<trajectory_id_, sensor_bridge_, trajectory_builders, nodes,
                   log, exports>>]_vars

\* a list was served on a bridge holding nodes and a finished trajectory
C16_Witness ==
  /\ out.op = "GetSubmapList"
  /\ ~out.aborted
  /\ Len(nodes) > 0
  /\ IsFinished(0)
  /\ Len(log) > 0

\* C17: whenever no HandleFinishTrajectory call is in progress, the adapter
\* is bound to the builder of trajectory_id_ and that trajectory is not
\* finalized; every sample forwarded through the adapter is ingested by the
\* trajectory that is current and active at that moment.
C17_AdapterBoundToActiveTrajectory ==
  /\ []((Alive /\ AllIdle) =>
          /\ sensor_bridge_ = trajectory_id_
          /\ ~IsFinished(trajectory_id_))
  /\ [][Len(samples') > Len(samples) =>
          LET sample == samples'[Len(samples')]
          IN  /\ sample.adapter = trajectory_id_
              /\ sample.outcome = "ingested"
              /\ ~IsFinished(sample.adapter)
              /\ \A t \in TrajectoryIds :
                   trajectory_builders'[t + 1].laser_fans =
                     trajectory_builders[t + 1].laser_fans
                       + (IF t = trajectory_id_ THEN 1 ELSE 0)]_vars

\* after a handoff a sample went to the new trajectory, none to the old one
C17_Witness ==
  /\ Alive /\ AllIdle
  /\ calls >= 1
  /\ Len(samples) >= 1
  /\ samples[Len(samples)].adapter = trajectory_id_
  /\ trajectory_id_ >= 1
  /\ trajectory_builders[trajectory_id_ + 1].laser_fans >= 1
  /\ trajectory_builders[1].laser_fans = 0

\* C18: after n completed HandleFinishTrajectory calls GetSubmapList
\* returns n+1 groups, one per trajectory ever created, the last being the
\* current trajectory; a trajectory without submaps is an empty group.
C18_ListCoversEveryTrajectory ==
  (out.op = "GetSubmapList" /\ ~out.aborted) =>
    /\ Len(out.list) = calls + 1
    /\ Len(out.list) = Len(IssuedHandles)
    /\ trajectory_id_ = Len(out.list) - 1
    /\ \A t \in TrajectoryIds :
         Len(trajectory_builders[t + 1].submaps) = 0 => out.list[t + 1] = <<>>

\* two calls completed: three groups, an empty one between two with submaps
C18_Witness ==
  /\ out.op = "GetSubmapList" /\ ~out.aborted
  /\ calls = 2
  /\ Len(out.list) = 3
  /\ out.list[1] # <<>>
  /\ out.list[2] = <<>>
  /\ out.list[3] # <<>>

====
